---- MODULE Spec2Model ----
(***************************************************************************)
(* Model of CM360_cloud_conversion_upload_node/main.py: the Pub/Sub        *)
(* handler `main` and the batching uploader `upload_data`.                 *)
(*                                                                         *)
(* The remote service (service.conversions().batchinsert(...).execute())   *)
(* is the environment: every call is recorded in `calls`, and the call     *)
(* either raises a transport error or returns a response of any shape the  *)
(* code may be handed.  print() output of the response handling is kept in *)
(* `reported` for the response currently being handled.                    *)
(***************************************************************************)
EXTENDS Integers, Sequences, FiniteSets, TLC

VARIABLES
    entry,               \* which function the invocation enters: "main" or "upload_data"
    event,               \* the decoded shape of the Pub/Sub event handed to main
    rows,                \* upload_data parameter
    profile_id,          \* upload_data parameter
    fl_configuration_id, \* upload_data parameter
    fl_activity_id,      \* upload_data parameter
    pc,                  \* position of the single thread of control
    exc,                 \* exception that left the invocation ("none" if none)
    currentrow,          \* loop cursor of upload_data
    all_conversions,     \* the request text under construction, as tokens
    calls,               \* batchinsert calls made so far (profileId, body)
    setupCalls,          \* number of API clients built by setup()
    response,            \* response of the last execute()
    lineIdx,             \* index of the next status line to handle
    reported,            \* reports printed for the current response
    mainReport,          \* outcome printed by main ("none", "missing_config", "no_data")
    configRead           \* TRUE once main has looked a key up in config

vars == <<entry, event, rows, profile_id, fl_configuration_id, fl_activity_id,
          pc, exc, currentrow, all_conversions, calls, setupCalls, response,
          lineIdx, reported, mainReport, configRead>>

----------------------------------------------------------------------------
(* Bounds of the model *)

MaxRows == 250

(* The window size and the cursor step of upload_data *)
WindowSize == 100
CursorStep == 100

----------------------------------------------------------------------------
(* Python values *)

None == "None"
Absent == "absent"

\* Python truthiness of an identifier value (None and '' are falsy)
Truthy(x) == x \notin {None, ""}

Min(a, b) == IF a < b THEN a ELSE b

\* ids as upload_data may receive them
IdValues == {None, "", "id"}

\* a config key: missing from the dict, empty, or a value
KeyValues == {Absent, "", "id"}

\* dict lookup with the `x[k] if k in x else None` idiom of main
GetOrNone(v) == IF v = Absent THEN None ELSE v

----------------------------------------------------------------------------
(* Input records *)

\* the i-th conversion record of the payload
Row(i) ==
    [conversionVisitExternalClickId |-> i,
     conversionId |-> i,
     conversionTimestampMicros |-> i,
     conversionRevenue |-> i,
     conversionQuantity |-> 1]

RowList(n) == [i \in 1..n |-> Row(i)]

\* the conversion object built for one row (json.dumps of the dict)
Conversion(row, act, cfg) ==
    [kind |-> "dfareporting#conversion",
     gclid |-> row.conversionVisitExternalClickId,
     floodlightActivityId |-> act,
     floodlightConfigurationId |-> cfg,
     ordinal |-> row.conversionId,
     timestampMicros |-> row.conversionTimestampMicros,
     value |-> row.conversionRevenue,
     quantity |-> row.conversionQuantity]

----------------------------------------------------------------------------
(* The request text.  upload_data builds the body by string concatenation  *)
(* and parses it back with json.loads; the text is modelled as its JSON    *)
(* tokens.                                                                 *)

\* '{"kind": "dfareporting#conversionsBatchInsertRequest", "conversions": ['
HeaderText == << [t |-> "header"] >>

\* json.dumps(conversion) + ','
ConversionText(c) == << [t |-> "conv", v |-> c], [t |-> "comma"] >>

\* ']}'
CloserText == << [t |-> "closer"] >>

\* s[:-1]: the last character is removed; a comma vanishes, any other token
\* is left damaged
DropLastChar(s) ==
    IF Len(s) = 0 THEN s
    ELSE IF s[Len(s)].t = "comma" THEN SubSeq(s, 1, Len(s) - 1)
    ELSE SubSeq(s, 1, Len(s) - 1) \o << [t |-> "damaged"] >>

\* a window whose upper index is inclusive: one row too many
WindowInclusive(rs, cur) == SubSeq(rs, cur + 1, Min(cur + WindowSize + 1, Len(rs)))

\* rows[currentrow:min(currentrow+100, len(rows))]
Window(rs, cur) == SubSeq(rs, cur + 1, Min(cur + WindowSize, Len(rs)))

\* the for loop of upload_data: json.dumps(conversion) + ',' appended to the
\* text for every row of the window, in order
AppendWindow(text, w, act, cfg) ==
    text \o [j \in 1..(2 * Len(w)) |->
                ConversionText(Conversion(w[(j + 1) \div 2], act, cfg))[2 - (j % 2)]]

\* all_conversions[:-1] + ']}'
CloseText(text) == DropLastChar(text) \o CloserText

\* json.loads of the request text: header, conversions separated by commas,
\* closer; anything else is a JSONDecodeError
WellFormedText(s) ==
    /\ Len(s) >= 2
    /\ s[1].t = "header"
    /\ s[Len(s)].t = "closer"
    /\ \/ Len(s) = 2
       \/ /\ Len(s) % 2 = 1
          /\ \A j \in 2..(Len(s) - 1) :
                s[j].t = (IF j % 2 = 0 THEN "conv" ELSE "comma")

ParsedConversions(s) == [k \in 1..((Len(s) - 1) \div 2) |-> s[2 * k].v]

\* body=json.loads(all_conversions)
RequestBody(s) ==
    [kind |-> "dfareporting#conversionsBatchInsertRequest",
     conversions |-> ParsedConversions(s)]

----------------------------------------------------------------------------
(* Responses of the remote service *)

\* one entry of a status line's 'errors' list; the code may be missing
ErrorEntries == [code : {Absent, "X"}, message : {"Y"}]

GoodEntry == [code |-> "X", message |-> "Y"]
BadEntry == [code |-> Absent, message |-> "Y"]

\* values of line['errors'] when the key is there
ErrorLists ==
    {<< >>, <<GoodEntry>>, <<BadEntry>>, <<GoodEntry, BadEntry>>}

\* one line of response['status']: each of the keys may be missing
StatusLines ==
    [hasErrors : {TRUE}, errors : ErrorLists,
     conversion : {Absent, "conversion"}, gclid : {Absent, "gclid"}]
    \cup
    [hasErrors : {FALSE}, errors : {<< >>},
     conversion : {Absent, "conversion"}, gclid : {Absent, "gclid"}]

\* lines used in status lists of two lines: errors reported, no 'errors'
\* key, no 'errors' and no 'gclid' key
PairLines ==
    {[hasErrors |-> TRUE, errors |-> <<GoodEntry>>,
      conversion |-> "conversion", gclid |-> "gclid"],
     [hasErrors |-> FALSE, errors |-> << >>,
      conversion |-> "conversion", gclid |-> "gclid"],
     [hasErrors |-> FALSE, errors |-> << >>,
      conversion |-> "conversion", gclid |-> Absent]}

StatusLists ==
    {<< >>} \cup {<<l>> : l \in StatusLines}
            \cup {<<l, m>> : l \in PairLines, m \in PairLines}

\* a line that carries one error
FailedLine ==
    [hasErrors |-> TRUE, errors |-> <<GoodEntry>>,
     conversion |-> "conversion", gclid |-> "gclid"]

\* what execute() may return: with hasFailures any status list, without it
\* an empty status or one that still lists an error
Responses ==
    [hasFailures : {TRUE}, status : StatusLists]
    \cup [hasFailures : {FALSE}, status : {<< >>, <<FailedLine>>}]

NoResponse == [hasFailures |-> FALSE, status |-> << >>]

----------------------------------------------------------------------------
(* Reports (print) of the response handling *)

\* 'Successfully inserted batch of 100.'
BatchOkReport ==
    [kind |-> "batch_ok", line |-> 0, conversion |-> "-", code |-> "-", message |-> "-"]

\* 'Error in line ' + json.dumps(line['conversion'])
ErrorLineReport(i, line) ==
    [kind |-> "error_line", line |-> i, conversion |-> line.conversion,
     code |-> "-", message |-> "-"]

\* '\t[%s]: %s' % (error['code'], error['message'])
ErrorDetailReport(i, line, e) ==
    [kind |-> "error_detail", line |-> i, conversion |-> line.conversion,
     code |-> e.code, message |-> e.message]

\* 'Conversion with gclid ' + line['gclid'] + ' inserted.'
InsertedReport(i, line) ==
    [kind |-> "inserted", line |-> i, conversion |-> "-", code |-> "-", message |-> "-"]

\* the loop over line['errors'] inside the try block: the reports printed
\* and whether an exception left the loop
RECURSIVE ReportErrors(_, _, _)
ReportErrors(i, line, errs) ==
    IF errs = << >> THEN [out |-> << >>, raised |-> FALSE]
    ELSE IF line.conversion = Absent
         THEN [out |-> << >>, raised |-> TRUE]
    ELSE IF Head(errs).code = Absent \/ Head(errs).message = Absent
         THEN [out |-> << ErrorLineReport(i, line) >>, raised |-> TRUE]
    ELSE LET rest == ReportErrors(i, line, Tail(errs))
         IN  [out |-> << ErrorLineReport(i, line),
                         ErrorDetailReport(i, line, Head(errs)) >> \o rest.out,
              raised |-> rest.raised]

\* the try block: line['errors'] raises KeyError when the key is missing,
\* an empty list is falsy and skips the loop
TryBlock(i, line) ==
    IF ~line.hasErrors THEN [out |-> << >>, raised |-> TRUE]
    ELSE ReportErrors(i, line, line.errors)

\* the whole try/except for one status line: the reports printed and
\* whether the except handler itself raised (line['gclid'] missing)
HandleLine(i, line) ==
    LET t == TryBlock(i, line)
    IN  IF ~t.raised THEN [out |-> t.out, raised |-> FALSE]
        ELSE IF line.gclid = Absent THEN [out |-> t.out, raised |-> TRUE]
        ELSE [out |-> t.out \o << InsertedReport(i, line) >>, raised |-> FALSE]

----------------------------------------------------------------------------
(* Events handed to main *)

ConfigValues ==
    [profile_id : KeyValues,
     floodlight_activity_id : KeyValues,
     floodlight_configuration_id : KeyValues]

NoConfig ==
    [profile_id |-> Absent,
     floodlight_activity_id |-> Absent,
     floodlight_configuration_id |-> Absent]

RowLists == {RowList(n) : n \in 0..MaxRows}

\* a decodable event: json_payload['data'] with its two optional keys
DecodableEvents ==
    [encoding : {"ok"}, hasConversions : {TRUE}, conversions : RowLists,
     hasConfig : {TRUE}, config : ConfigValues]
    \cup
    [encoding : {"ok"}, hasConversions : {TRUE}, conversions : RowLists,
     hasConfig : {FALSE}, config : {NoConfig}]
    \cup
    [encoding : {"ok"}, hasConversions : {FALSE}, conversions : {<< >>},
     hasConfig : {TRUE}, config : ConfigValues]
    \cup
    [encoding : {"ok"}, hasConversions : {FALSE}, conversions : {<< >>},
     hasConfig : {FALSE}, config : {NoConfig}]

\* an event whose data is not base64 or not JSON
UndecodableEvents ==
    [encoding : {"bad_base64", "bad_json"}, hasConversions : {FALSE},
     conversions : {<< >>}, hasConfig : {FALSE}, config : {NoConfig}]

Events == DecodableEvents \cup UndecodableEvents

NoEvent ==
    [encoding |-> "none", hasConversions |-> FALSE, conversions |-> << >>,
     hasConfig |-> FALSE, config |-> NoConfig]

\* `if conversion_data:` None and [] are falsy
HasConversionData(ev) == ev.hasConversions /\ Len(ev.conversions) > 0

\* `if profile_id and floodlight_activity_id and floodlight_configuration_id:`
ConfigComplete(cfg) ==
    /\ Truthy(GetOrNone(cfg.profile_id))
    /\ Truthy(GetOrNone(cfg.floodlight_activity_id))
    /\ Truthy(GetOrNone(cfg.floodlight_configuration_id))

\* main looking the ids up in config before it tests conversion_data
MainOutcomeConfigFirst(ev) ==
    IF ~ev.hasConfig THEN [result |-> "TypeError", configRead |-> TRUE]
    ELSE IF ~HasConversionData(ev)
         THEN [result |-> "no_data", configRead |-> TRUE]
    ELSE IF ConfigComplete(ev.config)
         THEN [result |-> "upload", configRead |-> TRUE]
    ELSE [result |-> "missing_config", configRead |-> TRUE]

\* the branches of main after decoding: what main does and whether it looked
\* a key up in config ('profile_id' in None is a TypeError)
MainOutcome(ev) ==
    IF HasConversionData(ev)
    THEN IF ~ev.hasConfig THEN [result |-> "TypeError", configRead |-> TRUE]
         ELSE IF ConfigComplete(ev.config)
              THEN [result |-> "upload", configRead |-> TRUE]
              ELSE [result |-> "missing_config", configRead |-> TRUE]
    ELSE [result |-> "no_data", configRead |-> FALSE]

\* the guard written with `and` instead of `or`
MissingBothFloodlight(act, cfg) == ~Truthy(act) /\ ~Truthy(cfg)

\* `if not fl_activity_id or not fl_configuration_id:`
MissingFloodlight(act, cfg) == ~Truthy(act) \/ ~Truthy(cfg)

----------------------------------------------------------------------------
(* Initial states: one invocation, of main or of upload_data directly *)

InitMain ==
    /\ entry = "main"
    /\ event \in Events
    /\ rows = << >>
    /\ profile_id = None
    /\ fl_configuration_id = None
    /\ fl_activity_id = None
    /\ pc = "main"

InitUpload ==
    /\ entry = "upload_data"
    /\ event = NoEvent
    /\ rows \in RowLists
    /\ profile_id \in IdValues
    /\ fl_configuration_id \in IdValues
    /\ fl_activity_id \in IdValues
    /\ pc = "upload_data"

Init ==
    /\ InitMain \/ InitUpload
    /\ exc = "none"
    /\ currentrow = 0
    /\ all_conversions = << >>
    /\ calls = << >>
    /\ setupCalls = 0
    /\ response = NoResponse
    /\ lineIdx = 0
    /\ reported = << >>
    /\ mainReport = "none"
    /\ configRead = FALSE

----------------------------------------------------------------------------
(* main *)

\* base64.b64decode(...).decode('ascii') and json.loads(payload)
MainDecode ==
    /\ pc = "main"
    /\ IF event.encoding = "ok"
       THEN pc' = "main_decoded" /\ exc' = exc
       ELSE pc' = "raised" /\ exc' = "DecodeError"
    /\ UNCHANGED <<entry, event, rows, profile_id, fl_configuration_id,
                   fl_activity_id, currentrow, all_conversions, calls,
                   setupCalls, response, lineIdx, reported, mainReport,
                   configRead>>

\* the rest of main: call upload_data, report and return, or raise
MainDispatch ==
    /\ pc = "main_decoded"
    /\ LET o == MainOutcome(event)
       IN  /\ configRead' = o.configRead
           /\ IF o.result = "upload"
              THEN /\ rows' = event.conversions
                   /\ profile_id' = event.config.profile_id
                   /\ fl_configuration_id' = event.config.floodlight_configuration_id
                   /\ fl_activity_id' = event.config.floodlight_activity_id
                   /\ pc' = "upload_data"
                   /\ UNCHANGED <<exc, mainReport>>
              ELSE /\ UNCHANGED <<rows, profile_id, fl_configuration_id, fl_activity_id>>
                   /\ IF o.result = "TypeError"
                      THEN pc' = "raised" /\ exc' = "TypeError" /\ mainReport' = mainReport
                      ELSE pc' = "returned" /\ exc' = exc /\ mainReport' = o.result
    /\ UNCHANGED <<entry, event, currentrow, all_conversions, calls, setupCalls,
                   response, lineIdx, reported>>

----------------------------------------------------------------------------
(* upload_data *)

\* the guard clause
UploadGuard ==
    /\ pc = "upload_data"
    /\ pc' = IF MissingFloodlight(fl_activity_id, fl_configuration_id)
             THEN "returned" ELSE "setup"
    /\ UNCHANGED <<entry, event, rows, profile_id, fl_configuration_id,
                   fl_activity_id, exc, currentrow, all_conversions, calls,
                   setupCalls, response, lineIdx, reported, mainReport,
                   configRead>>

\* service = setup(); currentrow = 0; all_conversions = header
UploadSetup ==
    /\ pc = "setup"
    /\ setupCalls' = setupCalls + 1
    /\ currentrow' = 0
    /\ all_conversions' = HeaderText
    /\ pc' = "loop"
    /\ UNCHANGED <<entry, event, rows, profile_id, fl_configuration_id,
                   fl_activity_id, exc, calls, response, lineIdx, reported,
                   mainReport, configRead>>

\* `while currentrow < len(rows)` is false: upload_data (and main) return
LoopExit ==
    /\ pc = "loop"
    /\ ~(currentrow < Len(rows))
    /\ pc' = "returned"
    /\ UNCHANGED <<entry, event, rows, profile_id, fl_configuration_id,
                   fl_activity_id, exc, currentrow, all_conversions, calls,
                   setupCalls, response, lineIdx, reported, mainReport,
                   configRead>>

\* the for loop over the window and the closing of the request text
BuildBatch ==
    /\ pc = "loop"
    /\ currentrow < Len(rows)
    /\ all_conversions' =
          CloseText(AppendWindow(all_conversions, Window(rows, currentrow),
                                 fl_activity_id, fl_configuration_id))
    /\ pc' = "request"
    /\ UNCHANGED <<entry, event, rows, profile_id, fl_configuration_id,
                   fl_activity_id, exc, currentrow, calls, setupCalls, response,
                   lineIdx, reported, mainReport, configRead>>

\* the call the service receives
Call(pid, text) == [profileId |-> pid, body |-> RequestBody(text)]

\* json.loads, batchinsert and request.execute() returning a response
ExecuteReturns ==
    /\ pc = "request"
    /\ IF WellFormedText(all_conversions)
       THEN /\ calls' = Append(calls, Call(profile_id, all_conversions))
            /\ \E r \in Responses : response' = r
            /\ pc' = "response"
            /\ exc' = exc
       ELSE /\ pc' = "raised"
            /\ exc' = "JSONDecodeError"
            /\ UNCHANGED <<calls, response>>
    /\ reported' = << >>
    /\ lineIdx' = 0
    /\ UNCHANGED <<entry, event, rows, profile_id, fl_configuration_id,
                   fl_activity_id, currentrow, all_conversions, setupCalls,
                   mainReport, configRead>>

\* the transport error caught and logged inside the loop, which goes on
ExecuteRaisesCaught ==
    /\ pc = "request"
    /\ WellFormedText(all_conversions)
    /\ calls' = Append(calls, Call(profile_id, all_conversions))
    /\ pc' = "finish"
    /\ exc' = "TransportError"
    /\ UNCHANGED <<entry, event, rows, profile_id, fl_configuration_id,
                   fl_activity_id, currentrow, all_conversions, setupCalls,
                   response, lineIdx, reported, mainReport, configRead>>

\* request.execute() raising a transport/API error: nothing catches it
ExecuteRaises ==
    /\ pc = "request"
    /\ WellFormedText(all_conversions)
    /\ calls' = Append(calls, Call(profile_id, all_conversions))
    /\ pc' = "raised"
    /\ exc' = "TransportError"
    /\ UNCHANGED <<entry, event, rows, profile_id, fl_configuration_id,
                   fl_activity_id, currentrow, all_conversions, setupCalls,
                   response, lineIdx, reported, mainReport, configRead>>

\* `if not response['hasFailures']`
CheckFailures ==
    /\ pc = "response"
    /\ IF ~response.hasFailures
       THEN reported' = <<BatchOkReport>> /\ pc' = "finish" /\ lineIdx' = lineIdx
       ELSE reported' = reported /\ pc' = "status" /\ lineIdx' = 1
    /\ UNCHANGED <<entry, event, rows, profile_id, fl_configuration_id,
                   fl_activity_id, exc, currentrow, all_conversions, calls,
                   setupCalls, response, mainReport, configRead>>

\* one iteration of `for line in status`
StatusLine ==
    /\ pc = "status"
    /\ lineIdx <= Len(response.status)
    /\ LET h == HandleLine(lineIdx, response.status[lineIdx])
       IN  /\ reported' = reported \o h.out
           /\ IF h.raised
              THEN pc' = "raised" /\ exc' = "KeyError" /\ lineIdx' = lineIdx
              ELSE pc' = pc /\ exc' = exc /\ lineIdx' = lineIdx + 1
    /\ UNCHANGED <<entry, event, rows, profile_id, fl_configuration_id,
                   fl_activity_id, currentrow, all_conversions, calls,
                   setupCalls, response, mainReport, configRead>>

\* the status list is exhausted
StatusDone ==
    /\ pc = "status"
    /\ lineIdx > Len(response.status)
    /\ pc' = "finish"
    /\ UNCHANGED <<entry, event, rows, profile_id, fl_configuration_id,
                   fl_activity_id, exc, currentrow, all_conversions, calls,
                   setupCalls, response, lineIdx, reported, mainReport,
                   configRead>>

\* currentrow += 100 and the request text reset to the header.  response,
\* status and line are dead from here on (the next iteration assigns them
\* before reading them), so the handled response is dropped with its reports
FinishBatch ==
    /\ pc = "finish"
    /\ currentrow' = currentrow + CursorStep
    /\ all_conversions' = HeaderText
    /\ response' = NoResponse
    /\ lineIdx' = 0
    /\ reported' = << >>
    /\ pc' = "loop"
    /\ UNCHANGED <<entry, event, rows, profile_id, fl_configuration_id,
                   fl_activity_id, exc, calls, setupCalls, mainReport,
                   configRead>>

Next ==
    \/ MainDecode
    \/ MainDispatch
    \/ UploadGuard
    \/ UploadSetup
    \/ LoopExit
    \/ BuildBatch
    \/ ExecuteReturns
    \/ ExecuteRaises
    \/ CheckFailures
    \/ StatusLine
    \/ StatusDone
    \/ FinishBatch

Spec == Init /\ [][Next]_vars

----------------------------------------------------------------------------
(* Properties *)

\* the invocation has ended, by return or by an exception leaving it
Final == pc \in {"returned", "raised"}

\* both floodlight ids handed to upload_data are non-empty
FloodlightGiven ==
    fl_activity_id \notin {None, ""} /\ fl_configuration_id \notin {None, ""}

\* the conversions of all request bodies, in the order of the calls
RECURSIVE Submitted(_)
Submitted(cs) ==
    IF cs = << >> THEN << >>
    ELSE Head(cs).body.conversions \o Submitted(Tail(cs))

\* one conversion per input record, in input order
ExpectedConversions ==
    [i \in 1..Len(rows) |-> Conversion(rows[i], fl_activity_id, fl_configuration_id)]

CeilDiv(n, d) == (n + d - 1) \div d

\* C1: when upload_data has run with both floodlight ids non-empty and no
\* remote call raised, the conversions of all request bodies, concatenated in
\* call order, are exactly the input records in input order.
C1_AllRecordsSubmittedInOrder ==
    (Final /\ FloodlightGiven /\ exc # "TransportError")
        => Submitted(calls) = ExpectedConversions

\* C2: when upload_data has run with both floodlight ids non-empty and no
\* remote call raised, it has returned after exactly ceil(N/100) calls.
C2_CeilCalls ==
    (Final /\ FloodlightGiven /\ exc # "TransportError")
        => (pc = "returned" /\ Len(calls) = CeilDiv(Len(rows), 100))

\* C3: every request body holds between 1 and 100 conversions, every body
\* but the last holds exactly 100, and the k-th body (k from 0) starts with
\* the conversion of input record 100*k.
C3_BatchSizes ==
    \A k \in 1..Len(calls) :
        LET b == calls[k].body.conversions
        IN  /\ Len(b) >= 1
            /\ Len(b) <= 100
            /\ (k < Len(calls) => Len(b) = 100)
            /\ 100 * (k - 1) + 1 <= Len(rows)
            /\ b[1] = Conversion(rows[100 * (k - 1) + 1],
                                 fl_activity_id, fl_configuration_id)

\* 250 records went out as three bodies, the last one of 50
C3_Witness ==
    /\ pc = "returned"
    /\ Len(rows) = 250
    /\ Len(calls) = 3
    /\ Len(calls[3].body.conversions) = 50

\* C4: upload_data called with fl_activity_id or fl_configuration_id empty
\* or None returns without raising, builds no client and makes no call.
C4_GuardReturns ==
    (/\ entry = "upload_data"
     /\ (fl_activity_id \in {None, ""} \/ fl_configuration_id \in {None, ""})
     /\ pc # "upload_data")
        => (pc = "returned" /\ exc = "none" /\ setupCalls = 0 /\ calls = << >>)

\* upload_data has returned from a call with rows to send, a profile id and
\* one floodlight id, the other one being None
C4_Witness ==
    /\ entry = "upload_data"
    /\ pc = "returned"
    /\ Len(rows) > 0
    /\ profile_id = "id"
    /\ fl_activity_id = None
    /\ fl_configuration_id = "id"

\* C5: when the remote call of batch k raises a transport error, the error
\* leaves the invocation, exactly k calls have been made, and they are the
\* first k windows of the input, each submitted once.
C5_TransportErrorHalts ==
    (exc = "TransportError")
        => /\ pc = "raised"
           /\ Len(calls) = (currentrow \div 100) + 1
           /\ \A j \in 1..Len(calls) :
                 /\ 100 * (j - 1) < Len(rows)
                 /\ calls[j].body.conversions =
                       [i \in 1..Min(100, Len(rows) - 100 * (j - 1)) |->
                           Conversion(rows[100 * (j - 1) + i],
                                      fl_activity_id, fl_configuration_id)]

\* main was given three batches of rows and the second call raised
C5_Witness ==
    /\ entry = "main"
    /\ exc = "TransportError"
    /\ pc = "raised"
    /\ Len(rows) > 200
    /\ Len(calls) = 2

\* C6: once a call has returned a response, the invocation does not end with
\* a window of rows left unsubmitted, whatever the response held, and no
\* batch is submitted twice.
C6_ContinuesAfterResponse ==
    /\ (Final /\ Len(calls) > 0 /\ exc # "TransportError")
          => 100 * Len(calls) >= Len(rows)
    /\ \A i, j \in 1..Len(calls) : i # j => calls[i] # calls[j]

\* the status lines of the current response whose handling has completed
HandledLines ==
    IF response.hasFailures /\ pc \in {"status", "finish"}
    THEN 1..(lineIdx - 1)
    ELSE {}

\* the line carries error entries in the shape the code expects
CarriesErrors(line) ==
    /\ line.hasErrors
    /\ line.errors # << >>
    /\ line.conversion # Absent
    /\ \A j \in 1..Len(line.errors) :
          line.errors[j].code # Absent /\ line.errors[j].message # Absent

ReportedFor(i, kind) == {n \in 1..Len(reported) : reported[n].line = i /\ reported[n].kind = kind}

\* C7: for a response with hasFailures, every handled status line that
\* carries errors has each (code, message) reported with the line's own
\* conversion, every other line is reported as inserted, and no line aborts
\* the run; a response without hasFailures is reported as a batch success
\* and nothing else.
C7_LineReports ==
    /\ exc # "KeyError"
    /\ \A i \in HandledLines :
          LET line == response.status[i]
          IN  IF CarriesErrors(line)
              THEN \A j \in 1..Len(line.errors) :
                      \E n \in ReportedFor(i, "error_detail") :
                          /\ reported[n].code = line.errors[j].code
                          /\ reported[n].message = line.errors[j].message
                          /\ reported[n].conversion = line.conversion
              ELSE ReportedFor(i, "inserted") # {}
    /\ (pc = "finish" /\ ~response.hasFailures) => reported = <<BatchOkReport>>

\* C8: main given conversions but no complete configuration (a key missing
\* or empty, or no config at all) reports the missing configuration, never
\* calls upload_data and returns without raising.
C8_MissingConfigReported ==
    (/\ entry = "main"
     /\ event.encoding = "ok"
     /\ event.hasConversions /\ Len(event.conversions) > 0
     /\ \/ ~event.hasConfig
        \/ event.config.profile_id \in {Absent, ""}
        \/ event.config.floodlight_activity_id \in {Absent, ""}
        \/ event.config.floodlight_configuration_id \in {Absent, ""}
     /\ pc \notin {"main", "main_decoded"})
        => /\ pc = "returned"
           /\ exc = "none"
           /\ mainReport = "missing_config"
           /\ setupCalls = 0
           /\ calls = << >>

\* C9: main given no conversions key or an empty conversions list reports
\* 'no data', looks nothing up in config, never calls upload_data and returns
\* without raising, whatever config is and whether it is there.
C9_NoDataIsNoOp ==
    (/\ entry = "main"
     /\ event.encoding = "ok"
     /\ (~event.hasConversions \/ Len(event.conversions) = 0)
     /\ pc \notin {"main", "main_decoded"})
        => /\ pc = "returned"
           /\ exc = "none"
           /\ mainReport = "no_data"
           /\ ~configRead
           /\ setupCalls = 0
           /\ calls = << >>

\* main has returned from an event with an empty conversions list and no
\* config key
C9_Witness ==
    /\ entry = "main"
    /\ pc = "returned"
    /\ event.hasConversions
    /\ event.conversions = << >>
    /\ ~event.hasConfig
    /\ mainReport = "no_data"

\* C10: every handled status line of a hasFailures response ends with error
\* reports or with an 'inserted' report, never with both and never with
\* neither.
C10_ExactlyOneOutcome ==
    \A i \in HandledLines :
        (ReportedFor(i, "error_line") # {}) # (ReportedFor(i, "inserted") # {})

====
